---- MODULE Spec2Model ----
(***************************************************************************)
(* Agile-Peak: the OAuth callback listener and token exchange of           *)
(* API_oauth_activityread.py / API_oath_demo.py, the wrapper scripts that  *)
(* call them, and the stream compilers.                                    *)
(*                                                                         *)
(* The listener is a socketserver.TCPServer.  Its serve_forever loop,      *)
(* shutdown() and the threading.Event they share are modelled statement by *)
(* statement, because the scripts run serve_forever on two threads.        *)
(***************************************************************************)
EXTENDS Integers, Sequences, FiniteSets, TLC

\* ------------------------------------------------------------------ bounds
\* Connections the browser (or anything else on localhost) makes in one run.
MaxRequests == 2
\* Parameters in one query string.
MaxParams == 2
\* Connections made during one run of a wrapper script.
MaxWrapperRequests == 1
\* The clock and the expiry times, in seconds.
MaxTime == 2
\* Digits in the spelling of an activity ID.
MaxIdLen == 2
\* Activity IDs handed to one run of a stream compiler.
MaxIds == 2
\* Consecutive runs of a stream compiler on the same IDs.
MaxRuns == 2

\* ------------------------------------------------------------- vocabulary
None == "None"
Loops == {"bg", "main"}
Shutdowns == 1..MaxRequests

\* One name=value pair of a query string, after percent-decoding.  A pair
\* written without "=" parses like one with an empty value.
Pairs == {<<"code", "">>, <<"code", "a">>, <<"code", "b">>, <<"state", "x">>}
RECURSIVE SeqsUpTo(_, _)
SeqsUpTo(S, n) ==
    IF n = 0 THEN {<<>>}
    ELSE LET shorter == SeqsUpTo(S, n - 1)
         IN  shorter \cup {Append(s, x) : s \in {r \in shorter : Len(r) = n - 1}, x \in S}
Queries == SeqsUpTo(Pairs, MaxParams)
NoQuery == <<<<"-", "-">>>>

VARIABLES
    pc,               \* position of the background thread and of the main thread
    cur,              \* the query string of the request a thread is handling
    capno,            \* which capture (1st, 2nd, ..) the request a thread handles made
    status,           \* status line a thread wrote for the request carrying a code it handles
    pending,          \* connections waiting in the listening socket's backlog
    sent,             \* connections made so far
    auth_code,        \* OAuthHandler.auth_code
    shutdown_request, \* BaseServer.__shutdown_request
    is_shut_down,     \* BaseServer.__is_shut_down (a threading.Event)
    shut,             \* position of each thread started on server.shutdown
    captures,         \* number of assignments to auth_code
    first_code,       \* the code of the first request that carried one
    answered400,      \* a request without code has been answered with status 400
    late_capture,     \* a code was captured after a request without code
    checked,          \* auth_code as main read it at the None test
    printed,          \* auth_code as main read it for the print
    exchanged,        \* auth_code as main read it for exchange_code_for_token
    posts,            \* token-exchange POSTs issued
    response,         \* the token endpoint's answer
    token_file,       \* json_dump/token.json
    token_file0,      \* json_dump/token.json when the run began
    console,          \* what the token response loop printed for expires_at
    exit_status,      \* "running", or how the process ended: "exit0", "exit1"
    port_free,        \* localhost:8000 can be bound
    browser_opened,   \* webbrowser.open was called
    diagnostic,       \* what the process printed when it failed
    wpc,              \* position of the wrapper script ("none": the OAuth script runs alone)
    stored_token,     \* access_token as get_valid_token read it
    valid_at_check,   \* the stored token was a valid one when get_valid_token tested it
    api_token,        \* the bearer token fetch_activities sent
    api_calls,        \* activity API requests issued
    wrapper,          \* which wrapper script runs: "Oauth_2_ActList", "wrapper3" ("none": none)
    write_result,     \* writing the activities file: "none", "written", "failed"
    csd_called,       \* wrapper3 called compile_stream_data.main
    variant,          \* which compiler runs: "list" (stream_data_compiler), "dict" (compile_stream_data)
    spc,              \* position of the stream compiler
    runs,             \* runs of the compiler that have ended
    activity_ids,     \* stream_data_compiler.main's activity_ids
    new_ids,          \* stream_data_compiler.main's new_ids still to process
    compile_file,     \* activity_stream_compilation.json
    ids_file,         \* the file at activities_json_path
    missing_ids,      \* compile_stream_data.main's missing_ids still to process
    compiled,         \* compile_stream_data.main's compiled
    compiled_file,    \* Comprehensive_stream_data.json
    found,            \* new or missing IDs each run found
    requests,         \* stream requests each run issued
    first_run_ok,     \* the first run ended normally, each of its stream requests answered with the streams
    file_after_first, \* the compilation file as the first run left it
    batch,            \* the new or missing IDs the current run found
    attempted,        \* the IDs the current run has requested streams for, in order
    dat_stream,       \* determine_activity_type's stream_data
    dat_meta,         \* metadata_lookup.get(activity_id) in determine_activity_type
    dat_result,       \* what determine_activity_type returned
    metadata_file,    \* activities_2025.json, which compile_stream_data.main reads the types from
    succeeded,        \* the IDs whose stream request the current run saw answered with the streams
    script,           \* which script was started from the shell ("none": none of them)
    cpc,              \* position of that script
    argv,             \* its command line after the script name
    env_token,        \* the environment variable STRAVA_TOKEN
    cli_env,          \* the files and data the script finds
    cli_exit,         \* "running", or the exit status: "exit0", "exit1", "exit2"
    cli_diag,         \* what the script reported when it ended
    cli_requests,     \* HTTP requests the script issued
    cli_status,       \* status of the last HTTP answer
    cli_token,        \* the bearer token the script uses
    cli_written,      \* files the script wrote
    cli_input,        \* the file the script read its input from
    fatal_met,        \* the run met a fatal condition: a missing token, an HTTP answer
                      \* that is not 2xx, malformed JSON input, a missing input file
    fn,               \* which function of the heart-rate scripts is applied ("none": none)
    fpc,              \* position in it
    data_file,        \* HRZdev: json_dump/datacrunchtest.json
    time_series,      \* HRZdev: data[run]["time"]["data"]
    heartrate_series, \* HRZdev: data[run]["heartrate"]["data"]
    hrz_i,            \* HRZdev: the loop index i (the first sample has index 0)
    zone_time,        \* HRZdev: seconds accumulated per zone name
    total_time,       \* HRZdev: sum(zone_time.values())
    hrmax,            \* compute_zones: the argument
    zones,            \* compute_zones: the returned mapping, its values in tenths
    hr_data,          \* find_hrmax: data, the activities of the mapping, in the order of items()
    max_hr            \* find_hrmax: max_hr, None included

serverVars == <<pending, sent, auth_code, shutdown_request, is_shut_down, shut>>
handlerVars == <<cur, capno, status>>
ghostVars == <<captures, first_code, answered400, late_capture>>
mainVars == <<checked, printed, exchanged, posts, response, console, diagnostic, browser_opened>>
glueVars == <<wrapper, write_result, csd_called>>
wrapperVars == <<wpc, stored_token, valid_at_check, api_token, api_calls, glueVars>>
fileVars == <<token_file, token_file0>>
envVars == <<port_free>>
oauthVars == <<pc, serverVars, handlerVars, ghostVars, mainVars, fileVars, envVars, exit_status>>
streamVars == <<variant, spc, runs, activity_ids, new_ids, compile_file, ids_file, missing_ids,
                compiled, compiled_file, found, requests, first_run_ok, file_after_first,
                batch, attempted, succeeded, metadata_file>>
cliVars == <<script, cpc, argv, env_token, cli_env, cli_input, cli_exit, cli_diag, cli_requests, cli_status,
             cli_token, cli_written, fatal_met>>
hrzVars == <<data_file, time_series, heartrate_series, hrz_i, zone_time, total_time>>
zonesVars == <<hrmax, zones>>
hrmaxVars == <<hr_data, max_hr>>
typeVars == <<dat_stream, dat_meta, dat_result>>
calcVars == <<fn, fpc, hrzVars, zonesVars, hrmaxVars, typeVars>>
vars == <<oauthVars, wrapperVars, streamVars, cliVars, calcVars>>

\* ------------------------------------------------------ urllib.parse.parse_qs
\* parse_qs(query) with its default keep_blank_values=False: a pair whose
\* value is empty is dropped; the values of a name keep their order.
Kept(q, n) == SelectSeq(q, LAMBDA p : p[1] = n /\ p[2] # "")
ParseQs(q) ==
    [n \in {q[i][1] : i \in {j \in 1..Len(q) : q[j][2] # ""}} |->
        [i \in 1..Len(Kept(q, n)) |-> Kept(q, n)[i][2]]]

\* ----------------------------------------------------------------- Init
NoFile == [state |-> "absent", data |-> <<>>]
OldFile == [state |-> "json",
            data |-> [k \in {"access_token", "refresh_token", "expires_at", "scope"} |->
                        CASE k = "access_token" -> "A"
                          [] k = "refresh_token" -> "R"
                          [] k = "expires_at" -> 1
                          [] OTHER -> "read"]]
NoResponse == [status |-> 0, body |-> [json |-> FALSE, data |-> <<>>]]

OAuthInit ==
    /\ cur = [t \in Loops |-> NoQuery]
    /\ capno = [t \in Loops |-> 0]
    /\ status = [t \in Loops |-> 0]
    /\ pending = 0
    /\ sent = 0
    /\ auth_code = None
    /\ shutdown_request = FALSE
    /\ is_shut_down = FALSE
    /\ shut = [i \in Shutdowns |-> "none"]
    /\ captures = 0
    /\ first_code = None
    /\ answered400 = FALSE
    /\ late_capture = FALSE
    /\ checked = None
    /\ printed = None
    /\ exchanged = None
    /\ posts = 0
    /\ response = NoResponse
    /\ console = <<>>
    /\ diagnostic = "none"
    /\ stored_token = None
    /\ valid_at_check = FALSE
    /\ api_token = None
    /\ api_calls = 0
    /\ exit_status = "running"
    /\ browser_opened = FALSE
    /\ port_free \in BOOLEAN
    /\ token_file0 = token_file

Running == exit_status = "running"

\* The process ends (sys.exit, an uncaught exception, or the script's last
\* line): its daemon threads end with it and its listening socket is closed.
ProcessExit(code, at) ==
    /\ exit_status' = code
    /\ pc' = [t \in Loops |-> IF t = "main" THEN at ELSE "dead"]
    /\ cur' = [t \in Loops |-> NoQuery]
    /\ capno' = [t \in Loops |-> 0]
    /\ status' = [t \in Loops |-> 0]
    /\ pending' = 0
    /\ shutdown_request' = FALSE
    /\ is_shut_down' = FALSE
    /\ shut' = [i \in Shutdowns |-> "dead"]
    /\ UNCHANGED <<sent, auth_code>>

\* --------------------------------------------------------------- main()
\* The thread is started whether or not the port was bound: not what
\* start_http_server does.
StartHttpServerUnbound ==
    /\ Running
    /\ pc["main"] = "start_server"
    /\ IF TRUE
       THEN /\ pc' = [pc EXCEPT !["main"] = "open_url", !["bg"] = "enter"]
            /\ UNCHANGED <<serverVars, handlerVars, exit_status, diagnostic>>
       ELSE /\ ProcessExit("exit1", "crashed")
            /\ diagnostic' = "traceback"
    /\ UNCHANGED <<ghostVars, fileVars, envVars, streamVars, cliVars, calcVars, wrapperVars,
                   checked, printed, exchanged, posts, response, console, browser_opened>>

\* start_http_server: TCPServer(("localhost", 8000), handler) binds and
\* listens, or raises OSError, which nothing catches; then the background
\* thread is started on httpd.serve_forever.
StartHttpServer ==
    /\ Running
    /\ pc["main"] = "start_server"
    /\ IF port_free
       THEN /\ pc' = [pc EXCEPT !["main"] = "open_url", !["bg"] = "enter"]
            /\ UNCHANGED <<serverVars, handlerVars, exit_status, diagnostic>>
       ELSE /\ ProcessExit("exit1", "crashed")
            /\ diagnostic' = "traceback"
    /\ UNCHANGED <<ghostVars, fileVars, envVars, streamVars, cliVars, calcVars, wrapperVars,
                   checked, printed, exchanged, posts, response, console, browser_opened>>

\* open_authorization_url: print the URL, webbrowser.open.
OpenAuthorizationUrl ==
    /\ Running
    /\ pc["main"] = "open_url"
    /\ browser_opened' = TRUE
    /\ pc' = [pc EXCEPT !["main"] = "enter"]
    /\ UNCHANGED <<serverVars, handlerVars, ghostVars, fileVars, envVars, streamVars, cliVars, calcVars, exit_status, wrapperVars,
                   checked, printed, exchanged, posts, response, console, diagnostic>>

\* -------------------------------------------- the client (browser redirect)
\* A connection to the listening socket.  The socket listens from the moment
\* TCPServer is constructed until the process ends.
Connect ==
    /\ Running
    /\ pc["main"] \notin {"idle", "start_server"}
    /\ sent < (IF wpc = "none" THEN MaxRequests ELSE MaxWrapperRequests)
    /\ sent' = sent + 1
    /\ pending' = pending + 1
    /\ UNCHANGED <<pc, handlerVars, ghostVars, mainVars, fileVars, envVars, streamVars, cliVars, calcVars, exit_status, wrapperVars,
                   auth_code, shutdown_request, is_shut_down, shut>>

\* ------------------------------------------- BaseServer.serve_forever(t)
\* self.__is_shut_down.clear()
ServeEnter(t) ==
    /\ Running
    /\ pc[t] = "enter"
    /\ is_shut_down' = FALSE
    /\ pc' = [pc EXCEPT ![t] = "test"]
    /\ UNCHANGED <<handlerVars, ghostVars, mainVars, fileVars, envVars, streamVars, cliVars, calcVars, exit_status, wrapperVars,
                   pending, sent, auth_code, shutdown_request, shut>>

\* while not self.__shutdown_request:
ServeTest(t) ==
    /\ Running
    /\ pc[t] = "test"
    /\ pc' = [pc EXCEPT ![t] = IF shutdown_request THEN "finally" ELSE "select"]
    /\ UNCHANGED <<serverVars, handlerVars, ghostVars, mainVars, fileVars, envVars, streamVars, cliVars, calcVars, exit_status, wrapperVars>>

\* ready = selector.select(poll_interval): the socket is readable, or the
\* 0.5 s timeout passed; if self.__shutdown_request: break;
\* if ready: self._handle_request_noblock(); self.service_actions().
ServeSelect(t) ==
    /\ Running
    /\ pc[t] = "select"
    /\ pc' = [pc EXCEPT ![t] = IF shutdown_request THEN "finally"
                               ELSE IF pending > 0 THEN "accept" ELSE "test"]
    /\ UNCHANGED <<serverVars, handlerVars, ghostVars, mainVars, fileVars, envVars, streamVars, cliVars, calcVars, exit_status, wrapperVars>>

\* get_request(): socket.accept() on a blocking socket.  It returns a
\* connection if one is waiting and blocks otherwise.  The handler then reads
\* the request line, whose query string is the input.
ServeAccept(t) ==
    /\ Running
    /\ pc[t] = "accept"
    /\ pending > 0
    /\ pending' = pending - 1
    /\ \E q \in Queries : cur' = [cur EXCEPT ![t] = q]
    /\ pc' = [pc EXCEPT ![t] = "do_GET"]
    /\ UNCHANGED <<capno, status, ghostVars, mainVars, fileVars, envVars, streamVars, cliVars, calcVars, exit_status, wrapperVars,
                   sent, auth_code, shutdown_request, is_shut_down, shut>>

\* finally: self.__shutdown_request = False; self.__is_shut_down.set(), which
\* wakes every thread waiting on the event.  The background thread ends
\* here; the main thread returns into main().
ServeFinally(t) ==
    /\ Running
    /\ pc[t] = "finally"
    /\ shutdown_request' = FALSE
    /\ is_shut_down' = TRUE
    /\ shut' = [i \in Shutdowns |-> IF shut[i] = "waiting" THEN "done" ELSE shut[i]]
    /\ pc' = [pc EXCEPT ![t] = IF t = "main" THEN "check_code" ELSE "exited"]
    /\ UNCHANGED <<handlerVars, ghostVars, mainVars, fileVars, envVars, streamVars, cliVars, calcVars, exit_status, wrapperVars,
                   pending, sent, auth_code>>

\* ------------------------------------------------- OAuthHandler.do_GET(t)
\* qs = parse_qs(urlparse(self.path).query) and the branch on "code" in qs.
\* With a code: OAuthHandler.auth_code = qs["code"][0].
\* Without: send_response(400), end_headers, wfile.write; the handler returns.
\* A handler that takes the last value of code instead of the first.
DoGetCodeLast(t) ==
    /\ "code" \in DOMAIN ParseQs(cur[t])
    /\ auth_code' = ParseQs(cur[t])["code"][Len(ParseQs(cur[t])["code"])]
    /\ captures' = captures + 1
    /\ capno' = [capno EXCEPT ![t] = captures + 1]
    /\ first_code' = IF captures = 0 THEN auth_code' ELSE first_code
    /\ late_capture' = (late_capture \/ answered400)
    /\ pc' = [pc EXCEPT ![t] = "send200"]
    /\ UNCHANGED <<status, answered400>>

DoGetCode(t) ==
    /\ "code" \in DOMAIN ParseQs(cur[t])
    /\ auth_code' = ParseQs(cur[t])["code"][1]
    /\ captures' = captures + 1
    /\ capno' = [capno EXCEPT ![t] = captures + 1]
    /\ first_code' = IF captures = 0 THEN auth_code' ELSE first_code
    /\ late_capture' = (late_capture \/ answered400)
    /\ pc' = [pc EXCEPT ![t] = "send200"]
    /\ UNCHANGED <<status, answered400>>

\* A handler that stops serving after a request without code.
DoGetNoCodeStops(t) ==
    /\ "code" \notin DOMAIN ParseQs(cur[t])
    /\ answered400' = TRUE
    /\ pc' = [pc EXCEPT ![t] = "finally"]
    /\ UNCHANGED <<status, auth_code, captures, capno, first_code, late_capture>>

DoGetNoCode(t) ==
    /\ "code" \notin DOMAIN ParseQs(cur[t])
    /\ answered400' = TRUE
    /\ pc' = [pc EXCEPT ![t] = "test"]
    /\ UNCHANGED <<status, auth_code, captures, capno, first_code, late_capture>>

DoGet(t) ==
    /\ Running
    /\ pc[t] = "do_GET"
    /\ DoGetCode(t) \/ DoGetNoCode(t)
    /\ cur' = [cur EXCEPT ![t] = NoQuery]
    /\ UNCHANGED <<mainVars, fileVars, envVars, streamVars, cliVars, calcVars, exit_status, wrapperVars,
                   pending, sent, shutdown_request, is_shut_down, shut>>

\* send_response(200); send_header; end_headers; wfile.write(body)
DoGetSend200(t) ==
    /\ Running
    /\ pc[t] = "send200"
    /\ status' = [status EXCEPT ![t] = 200]
    /\ pc' = [pc EXCEPT ![t] = "spawn"]
    /\ UNCHANGED <<serverVars, cur, capno, ghostVars, mainVars, fileVars, envVars, streamVars, cliVars, calcVars, exit_status, wrapperVars>>

\* threading.Thread(target=self.server.shutdown, daemon=True).start(); the
\* handler returns, the connection is closed, service_actions() runs.
DoGetSpawnShutdown(t) ==
    /\ Running
    /\ pc[t] = "spawn"
    /\ shut' = [shut EXCEPT ![capno[t]] = "start"]
    /\ capno' = [capno EXCEPT ![t] = 0]
    /\ status' = [status EXCEPT ![t] = 0]
    /\ pc' = [pc EXCEPT ![t] = "test"]
    /\ UNCHANGED <<cur, ghostVars, mainVars, fileVars, envVars, streamVars, cliVars, calcVars, exit_status, wrapperVars,
                   pending, sent, auth_code, shutdown_request, is_shut_down>>

\* ------------------------------------------------ BaseServer.shutdown(i)
\* self.__shutdown_request = True
ShutdownRequest(i) ==
    /\ Running
    /\ shut[i] = "start"
    /\ shutdown_request' = TRUE
    /\ shut' = [shut EXCEPT ![i] = "wait"]
    /\ UNCHANGED <<pc, handlerVars, ghostVars, mainVars, fileVars, envVars, streamVars, cliVars, calcVars, exit_status, wrapperVars,
                   pending, sent, auth_code, is_shut_down>>

\* self.__is_shut_down.wait(): returns at once if the event is set, else the
\* thread sleeps on the event's condition until a set() notifies it.
ShutdownWait(i) ==
    /\ Running
    /\ shut[i] = "wait"
    /\ shut' = [shut EXCEPT ![i] = IF is_shut_down THEN "done" ELSE "waiting"]
    /\ UNCHANGED <<pc, handlerVars, ghostVars, mainVars, fileVars, envVars, streamVars, cliVars, calcVars, exit_status, wrapperVars,
                   pending, sent, auth_code, shutdown_request, is_shut_down>>

\* ------------------------------------------------------ main(), continued
\* if OAuthHandler.auth_code is None: print, sys.exit(1)
MainCheckCode ==
    /\ Running
    /\ pc["main"] = "check_code"
    /\ checked' = auth_code
    /\ IF auth_code = None
       THEN /\ ProcessExit("exit1", "exited")
            /\ diagnostic' = "no_code"
       ELSE /\ pc' = [pc EXCEPT !["main"] = "print_code"]
            /\ UNCHANGED <<serverVars, handlerVars, exit_status, diagnostic>>
    /\ UNCHANGED <<ghostVars, fileVars, envVars, streamVars, cliVars, calcVars, wrapperVars,
                   printed, exchanged, posts, response, console, browser_opened>>

\* print(f"Received code: {OAuthHandler.auth_code}")
MainPrintCode ==
    /\ Running
    /\ pc["main"] = "print_code"
    /\ printed' = auth_code
    /\ pc' = [pc EXCEPT !["main"] = "exchange"]
    /\ UNCHANGED <<serverVars, handlerVars, ghostVars, fileVars, envVars, streamVars, cliVars, calcVars, wrapperVars, exit_status,
                   checked, exchanged, posts, response, console, diagnostic, browser_opened>>

\* ------------------------------------------------ exchange_code_for_token
\* The token endpoint's answers: a status, and a body that is a JSON object
\* with some of the fields below or no JSON at all.
\* requests.Response.raise_for_status raises for 400 <= status < 600.
RaisesForStatus(s) == s >= 400 /\ s < 600
Statuses == {200, 204, 300, 401, 500}
BodyKeys == {"access_token", "refresh_token", "expires_at", "token_type"}
TokenKeys == {"access_token", "refresh_token", "expires_at"}
Times == 0..MaxTime
FullBody(e) ==
    [k \in BodyKeys |->
        CASE k = "access_token" -> "N"
          [] k = "refresh_token" -> "S"
          [] k = "expires_at" -> e
          [] OTHER -> "Bearer"]
Restrict(f, S) == [k \in S |-> f[k]]
Bodies ==
    {[json |-> FALSE, data |-> <<>>]}
    \cup {[json |-> TRUE, data |-> Restrict(FullBody(e), S)] :
            e \in {MaxTime, MaxTime + 1}, S \in {BodyKeys, TokenKeys, {"access_token", "expires_at"},
                                {"refresh_token", "expires_at", "token_type"}, {}}}
Responses ==
    {r \in [status : Statuses, body : Bodies] : RaisesForStatus(r.status) => ~r.body.json}


\* datetime.utcfromtimestamp(v).strftime(..): the text printed for expires_at.
RenderUtc(v) == <<"UTC", v>>
Printed(data) ==
    [k \in DOMAIN data |-> IF k = "expires_at" THEN RenderUtc(data[k]) ELSE <<"raw", data[k]>>]

\* Persisting the whole token response.
MinimalKeepsAll(data) == data

\* minimal = {the three fields of token_info}
Minimal(data) == [k \in TokenKeys |-> data[k]]

\* The value of OAuthHandler.auth_code at the call is the argument; one POST;
\* then raise_for_status, resp.json(), the print loop, the three subscripts
\* (a missing key raises KeyError) and TOKEN_FILE.write_text.
ExchangeOutcome(r) ==
    IF RaisesForStatus(r.status)
    THEN /\ diagnostic' = "http_error"
         /\ ProcessExit("exit1", "exited")
         /\ UNCHANGED <<console, token_file, wpc>>
    ELSE IF ~r.body.json
    THEN /\ diagnostic' = "traceback"
         /\ ProcessExit("exit1", "crashed")
         /\ UNCHANGED <<console, token_file, wpc>>
    ELSE IF ~(TokenKeys \subseteq DOMAIN r.body.data)
    THEN /\ console' = Printed(r.body.data)
         /\ diagnostic' = "traceback"
         /\ ProcessExit("exit1", "crashed")
         /\ UNCHANGED <<token_file, wpc>>
    ELSE /\ console' = Printed(r.body.data)
         /\ token_file' = [state |-> "json", data |-> Minimal(r.body.data)]
         /\ IF wpc = "none"
            THEN ProcessExit("exit0", "returned") /\ UNCHANGED wpc
            ELSE /\ wpc' = "reread"
                 /\ pc' = [pc EXCEPT !["main"] = "returned"]
                 /\ UNCHANGED <<serverVars, handlerVars, exit_status>>
         /\ UNCHANGED diagnostic

ExchangeCodeForToken ==
    /\ Running
    /\ pc["main"] = "exchange"
    /\ exchanged' = auth_code
    /\ posts' = posts + 1
    /\ \E r \in Responses : response' = r /\ ExchangeOutcome(r)
    /\ UNCHANGED <<ghostVars, envVars, streamVars, cliVars, calcVars, token_file0,
                   stored_token, valid_at_check, api_token, api_calls, glueVars,
                   checked, printed, browser_opened>>

\* -------------------------------------- wrapper3 / Oauth_2_ActList
\* get_valid_token, first half: read the token file; any exception while
\* reading gives (None, 0); then the test on access_token and expires_at
\* against int(datetime.now(timezone.utc).timestamp()).
StoredAccessToken(f) ==
    IF f.state = "json" /\ "access_token" \in DOMAIN f.data
    THEN f.data["access_token"] ELSE None
StoredExpiresAt(f) ==
    IF f.state = "json" /\ "access_token" \in DOMAIN f.data /\ "expires_at" \in DOMAIN f.data
    THEN f.data["expires_at"] ELSE 0
Falsy(tok) == tok = None \/ tok = ""

\* An expiry test that accepts a token expiring this very second.
NeedsOAuthLax(f, now) == Falsy(StoredAccessToken(f)) \/ StoredExpiresAt(f) < now

NeedsOAuth(f, now) == Falsy(StoredAccessToken(f)) \/ StoredExpiresAt(f) <= now

\* The data model's TokenRecord invariant: a readable record with a
\* non-empty access_token whose expires_at is strictly later than now.
ValidRecord(f, now) ==
    /\ f.state = "json"
    /\ "access_token" \in DOMAIN f.data
    /\ f.data["access_token"] # ""
    /\ "expires_at" \in DOMAIN f.data
    /\ f.data["expires_at"] > now

GetValidTokenCheck ==
    /\ Running
    /\ wpc = "gvt"
    /\ \E now \in Times :
        /\ valid_at_check' = ValidRecord(token_file, now)
        /\ IF NeedsOAuth(token_file, now)
           THEN /\ wpc' = "oauth"
                /\ pc' = [pc EXCEPT !["main"] = "start_server"]
                /\ UNCHANGED stored_token
           ELSE /\ wpc' = "fetch"
                /\ stored_token' = StoredAccessToken(token_file)
                /\ UNCHANGED pc
    /\ UNCHANGED <<serverVars, handlerVars, ghostVars, mainVars, fileVars, envVars, streamVars, cliVars, calcVars, exit_status,
                   api_token, api_calls, glueVars>>

\* get_valid_token, after oauther.main() returned: read the file again.
GetValidTokenReread ==
    /\ Running
    /\ wpc = "reread"
    /\ stored_token' = token_file.data["access_token"]
    /\ wpc' = "fetch"
    /\ UNCHANGED <<pc, serverVars, handlerVars, ghostVars, mainVars, fileVars, envVars, streamVars, cliVars, calcVars, exit_status,
                   valid_at_check, api_token, api_calls, glueVars>>

\* adr.fetch_activities(token): one GET with the bearer token; an HTTP error
\* status ends the process with status 1.
FetchActivities ==
    /\ Running
    /\ wpc = "fetch"
    /\ api_token' = stored_token
    /\ api_calls' = api_calls + 1
    /\ \E s \in Statuses :
        IF RaisesForStatus(s)
        THEN /\ wpc' = "exited"
             /\ diagnostic' = "http_error"
             /\ ProcessExit("exit1", pc["main"])
        ELSE /\ wpc' = "write_activities"
             /\ UNCHANGED <<pc, serverVars, handlerVars, exit_status, diagnostic>>
    /\ UNCHANGED <<ghostVars, fileVars, envVars, streamVars, cliVars, calcVars, stored_token, valid_at_check,
                   glueVars, checked, printed, exchanged, posts, response, console, browser_opened>>

\* main, 3.2: the activities are written to the activities file; an OSError
\* is printed.  Here main of Oauth_2_ActList.py ends, and with it the process.
WriteActivities ==
    /\ Running
    /\ wpc = "write_activities"
    /\ \E writable \in BOOLEAN : write_result' = IF writable THEN "written" ELSE "failed"
    /\ IF wrapper = "wrapper3"
       THEN /\ wpc' = "compile"
            /\ UNCHANGED <<pc, serverVars, handlerVars, exit_status>>
       ELSE /\ wpc' = "exited"
            /\ ProcessExit("exit0", pc["main"])
    /\ UNCHANGED <<ghostVars, fileVars, envVars, streamVars, cliVars, calcVars, mainVars,
                   stored_token, valid_at_check, api_token, api_calls, wrapper, csd_called>>

\* wrapper3.main, 3.3: compile_stream_data is imported, or the failure is
\* printed and main returns; then csd.main(token, str(activities_file)) is
\* called, whose run is that of FetcherLoad, FetcherIteration, FetcherSave and
\* which raises when the activities file does not exist.
CallCompile ==
    /\ Running
    /\ wpc = "compile"
    /\ wpc' = "exited"
    /\ \E importable \in BOOLEAN, earlier_file \in BOOLEAN :
         IF ~importable
         THEN /\ ProcessExit("exit0", pc["main"])
              /\ UNCHANGED <<csd_called, diagnostic>>
         ELSE /\ csd_called' = TRUE
              /\ IF write_result = "failed" /\ ~earlier_file
                 THEN ProcessExit("exit1", pc["main"]) /\ diagnostic' = "traceback"
                 ELSE ProcessExit("exit0", pc["main"]) /\ UNCHANGED diagnostic
    /\ UNCHANGED <<ghostVars, fileVars, envVars, streamVars, cliVars, calcVars,
                   checked, printed, exchanged, posts, response, console, browser_opened,
                   stored_token, valid_at_check, api_token, api_calls, wrapper, write_result>>

\* The wrapper scripts.
Wrappers == {"Oauth_2_ActList", "wrapper3"}

\* No wrapper script runs.
GlueIdle ==
    /\ wrapper = "none"
    /\ write_result = "none"
    /\ csd_called = FALSE

\* The token files a wrapper run may find.
CorruptFile == [state |-> "corrupt", data |-> <<>>]
StoredRecord(tok, e) ==
    [k \in TokenKeys |->
        CASE k = "access_token" -> tok
          [] k = "refresh_token" -> "R"
          [] OTHER -> e]
WrapperFiles ==
    {NoFile, CorruptFile}
    \cup {[state |-> "json", data |-> StoredRecord("A", e)] : e \in Times}
    \cup {[state |-> "json", data |-> d] :
            d \in {StoredRecord("", MaxTime),
                   Restrict(StoredRecord("A", MaxTime), {"refresh_token", "expires_at"}),
                   Restrict(StoredRecord("A", MaxTime), {"access_token", "refresh_token"})}}

\* ============================================================ stream compilers
\* An activity ID as the command line spells it: a string of decimal digits.
Digits == {0, 7}
Spellings == SeqsUpTo(Digits, MaxIdLen) \ {<<>>}

\* int(aid): the number a string of digits denotes.
RECURSIVE PyInt(_)
PyInt(s) ==
    IF s = <<>> THEN 0 ELSE 10 * PyInt(SubSeq(s, 1, Len(s) - 1)) + s[Len(s)]

\* str(n): the decimal digits of a number, without leading zeros.
RECURSIVE PyStr(_)
PyStr(n) == IF n < 10 THEN <<n>> ELSE PyStr(n \div 10) \o <<n % 10>>

NoRepeats(s) == \A i, j \in 1..Len(s) : s[i] = s[j] => i = j

\* A JSON file on disk: missing, not parseable, or holding a value.
MissingFile == [kind |-> "missing", data |-> <<>>]
CorruptJson == [kind |-> "corrupt", data |-> <<>>]
JsonFile(d) == [kind |-> "json", data |-> d]

\* One element of activity_stream_compilation.json; main stores int(aid)
\* under "id".  An element may have been written without "id" by other means.
Entry(n) == [has_id |-> TRUE, id |-> n]
EntryWithoutId == [has_id |-> FALSE, id |-> 0]

LoadExistingIds(f) ==
    IF f.kind # "json" THEN {}
    ELSE {PyStr(f.data[k].id) : k \in {j \in 1..Len(f.data) : f.data[j].has_id}}

SaveStream(f, entry) ==
    JsonFile((IF f.kind = "json" THEN f.data ELSE <<>>) \o <<entry>>)

NewIds(ids, existing_ids) == SelectSeq(ids, LAMBDA aid : aid \notin existing_ids)

\* A run of either compiler ends: the next run starts from the files it left.
EndRun(file) ==
    /\ runs' = runs + 1
    /\ spc' = IF runs + 1 < MaxRuns THEN "start" ELSE "done"
    /\ file_after_first' = IF runs = 0 THEN file ELSE file_after_first

ListOnly == UNCHANGED <<variant, activity_ids, ids_file, missing_ids, compiled, compiled_file,
                        metadata_file>>
DictOnly == UNCHANGED <<variant, activity_ids, new_ids, compile_file, ids_file, metadata_file>>

\* stream_data_compiler.main up to the loop: the stored IDs are read back as
\* strings and the IDs given are filtered against them.
CollectorLoad ==
    /\ variant = "list" /\ spc = "start"
    /\ new_ids' = NewIds(activity_ids, LoadExistingIds(compile_file))
    /\ found' = [found EXCEPT ![runs + 1] = Len(new_ids')]
    /\ batch' = new_ids'
    /\ attempted' = <<>>
    /\ succeeded' = {}
    /\ spc' = "loop"
    /\ ListOnly
    /\ UNCHANGED <<runs, compile_file, requests, first_run_ok, file_after_first>>
    /\ UNCHANGED <<oauthVars, wrapperVars, cliVars, calcVars>>

\* One iteration of main's loop: the streams are requested; an HTTPError
\* (raise_for_status) skips the ID; any other exception (the connection
\* fails, the body is not JSON) is not caught and ends the run with a
\* traceback; otherwise an element with "id": int(aid) is appended to the file.
CollectorIteration ==
    /\ variant = "list" /\ spc = "loop" /\ new_ids # <<>>
    /\ requests' = [requests EXCEPT ![runs + 1] = @ + 1]
    /\ attempted' = Append(attempted, Head(new_ids))
    /\ \E outcome \in {"streams", "HTTPError", "ConnectionError", "not_json"} :
         /\ first_run_ok' = (first_run_ok /\ (runs = 0 => outcome = "streams"))
         /\ succeeded' = IF outcome = "streams" THEN succeeded \cup {Head(new_ids)} ELSE succeeded
         /\ CASE outcome = "streams" ->
                   /\ compile_file' = SaveStream(compile_file, Entry(PyInt(Head(new_ids))))
                   /\ new_ids' = Tail(new_ids)
                   /\ UNCHANGED <<spc, runs, file_after_first>>
              [] outcome = "HTTPError" ->
                   /\ new_ids' = Tail(new_ids)
                   /\ UNCHANGED <<compile_file, spc, runs, file_after_first>>
              [] OTHER ->
                   /\ new_ids' = <<>>
                   /\ EndRun(compile_file)
                   /\ UNCHANGED compile_file
    /\ ListOnly
    /\ UNCHANGED <<found, batch>>
    /\ UNCHANGED <<oauthVars, wrapperVars, cliVars, calcVars>>

\* The loop is over: "All done!".
CollectorDone ==
    /\ variant = "list" /\ spc = "loop" /\ new_ids = <<>>
    /\ EndRun(compile_file)
    /\ ListOnly
    /\ UNCHANGED <<new_ids, compile_file, found, requests, first_run_ok, batch, attempted, succeeded>>
    /\ UNCHANGED <<oauthVars, wrapperVars, cliVars, calcVars>>

\* An element of the activity list: an int, a dict with "id", or anything else.
Item(kind, n) == [kind |-> kind, id |-> n]
Items == {Item(k, PyInt(s)) : k \in {"int", "dict"}, s \in Spellings} \cup {Item("other", 0)}

\* A key of the compilation dict, split at "_": "run_15" is <<"run", "15">>.
Key(act_type, aid) == <<act_type, PyStr(aid)>>

CleanedIds(all_ids) ==
    LET kept == SelectSeq(all_ids, LAMBDA item : item.kind \in {"int", "dict"})
    IN  [i \in 1..Len(kept) |-> kept[i].id]
GetMissingIds(all_ids, compiled_data) ==
    LET existing_ids == {PyInt(key[2]) : key \in {k \in DOMAIN compiled_data : Len(k) > 1}}
    IN  SelectSeq(CleanedIds(all_ids), LAMBDA aid : aid \notin existing_ids)

\* The stream payload, as far as determine_activity_type reads it: whether it
\* has "velocity_smooth", and that stream's "data".
Streams ==
    {[has_velocity |-> FALSE, data |-> <<>>]}
    \cup {[has_velocity |-> TRUE, data |-> d] : d \in {<<>>, <<7>>, <<3, 8>>}}

\* An activity's record in activities_2025.json, as far as it is read.
NoMeta == [has |-> FALSE, type |-> "-", sport_type |-> "-"]
TypeNames == {"-", "Run", "Walk", "Ride", "Hike"}
Metas ==
    {NoMeta} \cup {[has |-> TRUE, type |-> a, sport_type |-> b] :
                     a \in TypeNames, b \in {"-", "Run", "Ride"}}
Lower(t) ==
    CASE t = "Run" -> "run" [] t = "Walk" -> "walk" [] t = "Ride" -> "ride"
      [] t = "Hike" -> "hike" [] OTHER -> t

RECURSIVE MaxOf(_)
MaxOf(d) == IF Len(d) = 1 THEN d[1]
            ELSE LET m == MaxOf(Tail(d)) IN IF d[1] > m THEN d[1] ELSE m

\* "run", "ride", or "raise" when max() is handed an empty list.
DetermineActivityType(stream_data, meta) ==
    LET byVelocity ==
            IF ~stream_data.has_velocity THEN "run"
            ELSE IF stream_data.data = <<>> THEN "raise"
            ELSE IF MaxOf(stream_data.data) > 7 THEN "ride" ELSE "run"
        bySport ==
            IF meta.sport_type # "-" /\ Lower(meta.sport_type) \in {"run", "walk"} THEN "run"
            ELSE IF meta.sport_type # "-" /\ Lower(meta.sport_type) = "ride" THEN "ride"
            ELSE byVelocity
    IN  IF ~meta.has THEN byVelocity
        ELSE IF meta.type # "-" /\ Lower(meta.type) \in {"run", "walk"} THEN "run"
        ELSE IF meta.type # "-" /\ Lower(meta.type) = "ride" THEN "ride"
        ELSE bySport

Put(d, k, v) == [x \in DOMAIN d \cup {k} |-> IF x = k THEN v ELSE d[x]]

\* metadata_lookup.get(activity_id), the lookup being built from the metadata
\* file (load_json gives {} for an absent file).
MetadataLookup(file, aid) ==
    IF file.kind = "json" /\ aid \in DOMAIN file.data THEN file.data[aid] ELSE NoMeta

\* compile_stream_data.main up to the loop.  The activity list must be a JSON
\* array, the compilation and the metadata file must parse (else exit 1);
\* with nothing missing main returns without writing.
FetcherLoad ==
    /\ variant = "dict" /\ spc = "start"
    /\ LET metadata_parses == metadata_file.kind # "corrupt" IN
         IF ids_file.kind # "json" \/ compiled_file.kind = "corrupt"
         THEN /\ EndRun(compiled_file)
              /\ first_run_ok' = (first_run_ok /\ runs # 0)
              /\ batch' = <<>>
              /\ UNCHANGED <<compiled, missing_ids, found>>
         ELSE LET loaded == IF compiled_file.kind = "missing" THEN <<>> ELSE compiled_file.data
                  missing == GetMissingIds(ids_file.data, loaded)
              IN  /\ compiled' = loaded
                  /\ found' = [found EXCEPT ![runs + 1] = Len(missing)]
                  /\ batch' = IF metadata_parses THEN missing ELSE <<>>
                  /\ IF missing = <<>> \/ ~metadata_parses
                     THEN /\ EndRun(compiled_file)
                          /\ missing_ids' = <<>>
                          /\ first_run_ok' = (first_run_ok /\ (runs = 0 => missing = <<>>))
                     ELSE /\ missing_ids' = missing
                          /\ spc' = "loop"
                          /\ UNCHANGED <<runs, file_after_first, first_run_ok>>
    /\ attempted' = <<>>
    /\ succeeded' = {}
    /\ DictOnly
    /\ UNCHANGED <<compiled_file, requests>>
    /\ UNCHANGED <<oauthVars, wrapperVars, cliVars, calcVars>>

\* One iteration of main's loop: any exception, from the request or from
\* determine_activity_type, skips the ID; otherwise the streams are stored
\* under "<type>_<id>".
FetcherIteration ==
    /\ variant = "dict" /\ spc = "loop" /\ missing_ids # <<>>
    /\ requests' = [requests EXCEPT ![runs + 1] = @ + 1]
    /\ attempted' = Append(attempted, Head(missing_ids))
    /\ \E connected \in BOOLEAN, status_code \in {200, 404}, stream \in Streams :
         LET aid == Head(missing_ids)
             meta == MetadataLookup(metadata_file, aid)
             fetched == connected /\ status_code = 200
             act_type == DetermineActivityType(stream, meta)
         IN  /\ first_run_ok' = (first_run_ok /\ (runs = 0 => fetched))
             /\ succeeded' = IF fetched THEN succeeded \cup {aid} ELSE succeeded
             /\ compiled' = IF fetched /\ act_type # "raise"
                            THEN Put(compiled, Key(act_type, aid), stream)
                            ELSE compiled
    /\ missing_ids' = Tail(missing_ids)
    /\ DictOnly
    /\ UNCHANGED <<spc, runs, compiled_file, found, file_after_first, batch>>
    /\ UNCHANGED <<oauthVars, wrapperVars, cliVars, calcVars>>

\* The loop is over: save_json writes compiled.
FetcherSave ==
    /\ variant = "dict" /\ spc = "loop" /\ missing_ids = <<>>
    /\ compiled_file' = JsonFile(compiled)
    /\ EndRun(compiled_file')
    /\ DictOnly
    /\ UNCHANGED <<missing_ids, compiled, found, requests, first_run_ok, batch, attempted, succeeded>>
    /\ UNCHANGED <<oauthVars, wrapperVars, cliVars, calcVars>>

\* No stream compiler runs.
StreamIdle ==
    /\ variant = "none"
    /\ spc = "none"
    /\ runs = 0
    /\ activity_ids = <<>>
    /\ new_ids = <<>>
    /\ compile_file = MissingFile
    /\ ids_file = MissingFile
    /\ missing_ids = <<>>
    /\ compiled = <<>>
    /\ compiled_file = MissingFile
    /\ found = [r \in 1..MaxRuns |-> 0]
    /\ requests = [r \in 1..MaxRuns |-> 0]
    /\ first_run_ok = TRUE
    /\ file_after_first = MissingFile
    /\ batch = <<>>
    /\ attempted = <<>>
    /\ succeeded = {}
    /\ metadata_file = MissingFile

\* ============================================================ command lines
\* The scripts that are run once from the shell.  The process ends with
\* status 0 when the script's last line is reached, with the argument of
\* sys.exit, with 1 after an uncaught exception, with 2 when argparse rejects
\* the command line.
CliExit(code, diag) ==
    /\ cli_exit' = code
    /\ cli_diag' = diag
    /\ cpc' = "ended"

\* ---------------------------------------------- Activity_data_retrieve.py
\* parse_args: the arguments after the script name.  argparse accepts no
\* argument or --token with one value, and ends the process with status 2 on
\* anything else.
ParseArgs(args) ==
    IF args = <<>> THEN [ok |-> TRUE, token |-> None]
    ELSE IF Len(args) = 2 /\ args[1] = "--token" THEN [ok |-> TRUE, token |-> args[2]]
    ELSE [ok |-> FALSE, token |-> None]

\* The environment variable first: not what main does.
OrEnvFirst(x, y) == IF y = None \/ y = "" THEN x ELSE y

\* x or y, for values that are None or strings.
Or(x, y) == IF x = None \/ x = "" THEN y ELSE x

\* main up to the request: the token is args.token or STRAVA_TOKEN.
ActivitiesArgs ==
    /\ script = "activities" /\ cpc = "start"
    /\ LET args == ParseArgs(argv)
           token == Or(args.token, env_token)
       IN  IF ~args.ok
           THEN CliExit("exit2", "usage") /\ UNCHANGED <<cli_token, fatal_met>>
           ELSE IF token = None \/ token = ""
           THEN CliExit("exit1", "no_token") /\ fatal_met' = TRUE /\ UNCHANGED cli_token
           ELSE /\ cli_token' = token
                /\ cpc' = "fetch"
                /\ UNCHANGED <<cli_exit, cli_diag, fatal_met>>
    /\ UNCHANGED <<script, argv, env_token, cli_env, cli_input, cli_requests, cli_status, cli_written>>
    /\ UNCHANGED <<oauthVars, wrapperVars, streamVars, calcVars>>

\* fetch_activities(token), called from main.
ActivitiesFetch ==
    /\ script = "activities" /\ cpc = "fetch"
    /\ cli_requests' = cli_requests + 1
    /\ \E s \in Statuses, is_json \in BOOLEAN :
         /\ cli_status' = s
         /\ fatal_met' = (fatal_met \/ s < 200 \/ s >= 300 \/ ~is_json)
         /\ IF RaisesForStatus(s) THEN CliExit("exit1", "http_error")
            ELSE IF ~is_json THEN CliExit("exit1", "traceback")
            ELSE cpc' = "write" /\ UNCHANGED <<cli_exit, cli_diag>>
    /\ UNCHANGED <<script, argv, env_token, cli_env, cli_input, cli_token, cli_written>>
    /\ UNCHANGED <<oauthVars, wrapperVars, streamVars, calcVars>>

\* main: the activities are written to activities_<year>.json.
ActivitiesWrite ==
    /\ script = "activities" /\ cpc = "write"
    /\ \E writable \in BOOLEAN :
         IF writable
         THEN /\ cli_written' = cli_written \cup {"activities_year.json"}
              /\ CliExit("exit0", "none")
              /\ UNCHANGED fatal_met
         ELSE /\ CliExit("exit1", "os_error")
              /\ UNCHANGED <<cli_written, fatal_met>>
    /\ UNCHANGED <<script, argv, env_token, cli_env, cli_input, cli_requests, cli_status, cli_token>>
    /\ UNCHANGED <<oauthVars, wrapperVars, streamVars, calcVars>>

\* ---------------------------------------------- recentActStreamRetrieve.py
\* int(sys.argv[1]) for the two words the model passes as a year.
IsYear(word) == word = "2025"

\* What a run finds on disk and on the wire.
RecentEnvs ==
    [activities_file : {"missing", "corrupt", "object", "empty_list", "list"},
     streams_file : BOOLEAN,        \* json_dump/testStreamData.json exists
     has_heartrate : BOOLEAN,       \* of the most recent activity
     in_local_dump : BOOLEAN,       \* the local dump has the activity's streams
     token_file : {"missing", "corrupt", "no_access_token", "token"}]

\* __main__ and main up to the has_hr test: every failure here is an
\* exception nobody catches.
RecentStart ==
    /\ script = "recent" /\ cpc = "start"
    /\ IF Len(argv) > 1
       THEN CliExit("exit1", "usage") /\ UNCHANGED fatal_met
       ELSE IF Len(argv) = 1 /\ ~IsYear(argv[1])
       THEN CliExit("exit1", "traceback") /\ UNCHANGED fatal_met
       ELSE IF cli_env.activities_file = "missing" \/ ~cli_env.streams_file
       THEN CliExit("exit1", "traceback") /\ fatal_met' = TRUE
       ELSE IF cli_env.activities_file = "corrupt"
       THEN CliExit("exit1", "traceback") /\ fatal_met' = TRUE
       ELSE IF cli_env.activities_file \in {"object", "empty_list"}
       THEN CliExit("exit1", "traceback") /\ UNCHANGED fatal_met
       ELSE /\ cpc' = IF cli_env.has_heartrate THEN "local" ELSE "api"
            /\ UNCHANGED <<cli_exit, cli_diag, fatal_met>>
    /\ UNCHANGED <<script, argv, env_token, cli_env, cli_input, cli_requests, cli_status, cli_token, cli_written>>
    /\ UNCHANGED <<oauthVars, wrapperVars, streamVars, calcVars>>

\* main, has_hr branch: pull_local_stream; its KeyError is printed and main
\* returns.
RecentLocalStream ==
    /\ script = "recent" /\ cpc = "local"
    /\ IF cli_env.in_local_dump
       THEN /\ cli_written' = cli_written \cup {"id_w_HR.json"}
            /\ CliExit("exit0", "none")
       ELSE /\ CliExit("exit0", "printed")
            /\ UNCHANGED cli_written
    /\ UNCHANGED <<script, argv, env_token, cli_env, cli_input, cli_requests, cli_status, cli_token, fatal_met>>
    /\ UNCHANGED <<oauthVars, wrapperVars, streamVars, calcVars>>

\* main, other branch: pull_api_stream.  load_access_token raises
\* RuntimeError without token.json; a status other than 200 raises
\* RuntimeError; main prints a RuntimeError and returns.  Anything else that
\* is raised (token.json does not parse or lacks access_token, the answer is
\* an object keyed by type and not a list of streams) is not caught.
RecentApiStream ==
    /\ script = "recent" /\ cpc = "api"
    /\ CASE cli_env.token_file = "missing" ->
              /\ CliExit("exit0", "printed")
              /\ fatal_met' = TRUE
              /\ UNCHANGED <<cli_requests, cli_status, cli_token, cli_written>>
         [] cli_env.token_file \in {"corrupt", "no_access_token"} ->
              /\ CliExit("exit1", "traceback")
              /\ fatal_met' = TRUE
              /\ UNCHANGED <<cli_requests, cli_status, cli_token, cli_written>>
         [] OTHER ->
              /\ cli_token' = "F"
              /\ cli_requests' = cli_requests + 1
              /\ \E s \in Statuses, body \in {"list", "object", "not_json"} :
                   /\ cli_status' = s
                   /\ IF s # 200
                      THEN /\ CliExit("exit0", "printed")
                           /\ fatal_met' = TRUE
                           /\ UNCHANGED cli_written
                      ELSE IF body # "list"
                      THEN /\ CliExit("exit1", "traceback")
                           /\ UNCHANGED <<cli_written, fatal_met>>
                      ELSE /\ cli_written' = cli_written \cup {"id_noHR.json"}
                           /\ CliExit("exit0", "none")
                           /\ UNCHANGED fatal_met
    /\ UNCHANGED <<script, argv, env_token, cli_env, cli_input>>
    /\ UNCHANGED <<oauthVars, wrapperVars, streamVars, calcVars>>

\* ---------------------------------------------------- compile_stream_data.py
\* Here a word of the command line is the sequence of its characters.
Whitespace == {" "}
Chars == {" ", "T"}
MaxWordLen == 2
Words == SeqsUpTo(Chars, MaxWordLen)

\* str.strip(): the word without its leading and trailing whitespace.
RECURSIVE LStrip(_)
LStrip(w) == IF w # <<>> /\ Head(w) \in Whitespace THEN LStrip(Tail(w)) ELSE w
RECURSIVE RStrip(_)
RStrip(w) ==
    IF w # <<>> /\ w[Len(w)] \in Whitespace THEN RStrip(SubSeq(w, 1, Len(w) - 1)) ELSE w
Strip(w) == RStrip(LStrip(w))

\* def main(token, activities_json_path): the parameters without a default.
MainRequired == 2
\* main(access_token): the arguments the entry point passes.
MainSupplied == 1

\* __main__: usage test, strip, emptiness test, and the call of main, which
\* raises TypeError before its body when a required parameter is missing.
\* The body of main is FetcherLoad, FetcherIteration, FetcherSave.
CompileEntry ==
    /\ script = "compile" /\ cpc = "start"
    /\ IF Len(argv) # 1
       THEN CliExit("exit1", "usage") /\ fatal_met' = (argv = <<>>)
       ELSE IF Strip(argv[1]) = <<>>
       THEN CliExit("exit1", "no_token") /\ fatal_met' = TRUE
       ELSE IF MainSupplied # MainRequired
       THEN CliExit("exit1", "type_error") /\ UNCHANGED fatal_met
       ELSE cpc' = "main" /\ UNCHANGED <<cli_exit, cli_diag, fatal_met>>
    /\ UNCHANGED <<script, argv, env_token, cli_env, cli_input, cli_requests, cli_status, cli_token, cli_written>>
    /\ UNCHANGED <<oauthVars, wrapperVars, streamVars, calcVars>>

\* -------------------------------------------------- CalcPersonalHRZ.py, main
\* sys.argv: the path of the script, then the words of the command line.
ScriptPath == "find_hr_zones.py"
SysArgv == <<ScriptPath>> \o argv

\* What the files hold; the script itself is Python source.
ZonesEnvs ==
    {[f \in {ScriptPath, "in.json"} |-> IF f = ScriptPath THEN "python" ELSE c] :
        c \in {"absent", "corrupt", "no_heartrate", "activities"}}
Content(path) == IF path \in DOMAIN cli_env THEN cli_env[path] ELSE "absent"

\* main(sys.argv).  Python's argv[0] is SysArgv[1].
ZonesMain ==
    /\ script = "zones" /\ cpc = "start"
    /\ IF Len(SysArgv) < 2
       THEN CliExit("exit1", "usage") /\ UNCHANGED <<cli_input, cli_written>>
       ELSE LET input_path == SysArgv[1]
                output_path == IF Len(SysArgv) > 1 THEN SysArgv[2]
                               ELSE "json_dump/bad_call_hr_zones.json"
            IN  IF Content(input_path) = "absent"
                THEN CliExit("exit1", "no_file") /\ UNCHANGED <<cli_input, cli_written>>
                ELSE /\ cli_input' = input_path
                     /\ IF Content(input_path) \in {"python", "corrupt"}
                        THEN CliExit("exit1", "parse_error") /\ UNCHANGED cli_written
                        ELSE IF Content(input_path) = "no_heartrate"
                        THEN CliExit("exit1", "ValueError") /\ UNCHANGED cli_written
                        ELSE /\ cli_written' = cli_written \cup {output_path}
                             /\ CliExit("exit0", "none")
    /\ UNCHANGED <<script, argv, env_token, cli_env, cli_requests, cli_status, cli_token, fatal_met>>
    /\ UNCHANGED <<oauthVars, wrapperVars, streamVars, calcVars>>

\* No script of this section runs.
CliIdle ==
    /\ script = "none"
    /\ cpc = "none"
    /\ argv = <<>>
    /\ env_token = None
    /\ cli_env = <<>>
    /\ cli_input = None
    /\ cli_exit = "running"
    /\ cli_diag = "none"
    /\ cli_requests = 0
    /\ cli_status = 0
    /\ cli_token = None
    /\ cli_written = {}
    /\ fatal_met = FALSE

\* ================================================================ HRZdev.py
\* ZONE_DEFINITIONS in the order of the dictionary; open marks the predicate
\* without an upper limit.
ZoneDefinitionsGap ==
    << [name |-> "Zone 1 (0-119 bpm)", lo |-> 0, hi |-> 119, open |-> FALSE],
       [name |-> "Zome 2 (120-144 bpm)", lo |-> 121, hi |-> 144, open |-> FALSE],
       [name |-> "Zone 3 (145-165 bpm)", lo |-> 145, hi |-> 165, open |-> FALSE],
       [name |-> "Zone 4 (166-177 bpm)", lo |-> 166, hi |-> 177, open |-> FALSE],
       [name |-> "Zone 5 (>=178 bpm)", lo |-> 178, hi |-> 178, open |-> TRUE] >>
ZONE_DEFINITIONS ==
    << [name |-> "Zone 1 (0-119 bpm)", lo |-> 0, hi |-> 119, open |-> FALSE],
       [name |-> "Zome 2 (120-144 bpm)", lo |-> 120, hi |-> 144, open |-> FALSE],
       [name |-> "Zone 3 (145-165 bpm)", lo |-> 145, hi |-> 165, open |-> FALSE],
       [name |-> "Zone 4 (166-177 bpm)", lo |-> 166, hi |-> 177, open |-> FALSE],
       [name |-> "Zone 5 (>=178 bpm)", lo |-> 178, hi |-> 178, open |-> TRUE] >>
ZoneNames == {ZONE_DEFINITIONS[k].name : k \in DOMAIN ZONE_DEFINITIONS}

\* The lambda of one entry applied to hr.
Predicate(zone, hr) == zone.lo <= hr /\ (zone.open \/ hr <= zone.hi)

\* The inner loop: the first entry whose predicate holds, 0 when none does.
FirstMatch(hr) ==
    LET matching == {k \in DOMAIN ZONE_DEFINITIONS : Predicate(ZONE_DEFINITIONS[k], hr)}
    IN  IF matching = {} THEN 0
        ELSE CHOOSE k \in matching : \A other \in matching : k <= other

RECURSIVE SumOver(_, _)
SumOver(f, S) ==
    IF S = {} THEN 0
    ELSE LET x == CHOOSE x \in S : TRUE IN f[x] + SumOver(f, S \ {x})

\* Module level up to the loop: the file is read and the two lengths are
\* compared.
HrzLoad ==
    /\ fn = "zone_time" /\ fpc = "start"
    /\ IF data_file # "json" \/ Len(time_series) # Len(heartrate_series)
       THEN fpc' = "raised" /\ UNCHANGED <<hrz_i, zone_time>>
       ELSE /\ zone_time' = [name \in ZoneNames |-> 0]
            /\ hrz_i' = 1
            /\ fpc' = "loop"
    /\ UNCHANGED <<fn, data_file, time_series, heartrate_series, total_time, zonesVars, hrmaxVars, typeVars>>
    /\ UNCHANGED <<oauthVars, wrapperVars, streamVars, cliVars>>

\* One iteration of for i in range(1, len(time_series)).  Python's index i
\* is position hrz_i + 1 of the sequence.
HrzIteration ==
    /\ fn = "zone_time" /\ fpc = "loop"
    /\ hrz_i < Len(time_series)
    /\ LET dt == time_series[hrz_i + 1] - time_series[hrz_i]
           hr == heartrate_series[hrz_i + 1]
           k == FirstMatch(hr)
       IN  zone_time' = IF k = 0 THEN zone_time
                        ELSE [zone_time EXCEPT ![ZONE_DEFINITIONS[k].name] = @ + dt]
    /\ hrz_i' = hrz_i + 1
    /\ UNCHANGED <<fn, fpc, data_file, time_series, heartrate_series, total_time, zonesVars, hrmaxVars, typeVars>>
    /\ UNCHANGED <<oauthVars, wrapperVars, streamVars, cliVars>>

\* After the loop: the total is computed and the durations are printed.
HrzOutput ==
    /\ fn = "zone_time" /\ fpc = "loop"
    /\ hrz_i >= Len(time_series)
    /\ total_time' = SumOver(zone_time, ZoneNames)
    /\ fpc' = "done"
    /\ UNCHANGED <<fn, data_file, time_series, heartrate_series, hrz_i, zone_time, zonesVars, hrmaxVars, typeVars>>
    /\ UNCHANGED <<oauthVars, wrapperVars, streamVars, cliVars>>

HrzIdle ==
    /\ data_file = "missing"
    /\ time_series = <<>>
    /\ heartrate_series = <<>>
    /\ hrz_i = 0
    /\ zone_time = <<>>
    /\ total_time = 0

\* ========================================================== CalcPersonalHRZ.py
\* A decimal literal 0.ddddd ddddd ddddd as its three groups of five digits
\* (1 is 100000, 0, 0).  binary: the literal is a binary fraction, which the
\* double holds exactly; the double of any other literal is a neighbour of
\* the decimal value.
Lit(d2, d1, d0, binary) == [d2 |-> d2, d1 |-> d1, d0 |-> d0, binary |-> binary]
zone_percents ==
    << [name |-> "Zone 1", low_pct |-> Lit(68229, 16666, 66667, FALSE),
                           high_pct |-> Lit(73958, 33333, 33333, FALSE)],
       [name |-> "Zone 2", low_pct |-> Lit(73960, 0, 0, FALSE),
                           high_pct |-> Lit(81250, 0, 0, TRUE)],
       [name |-> "Zone 3", low_pct |-> Lit(81260, 0, 0, FALSE),
                           high_pct |-> Lit(88020, 83333, 33333, FALSE)],
       [name |-> "Zone 4", low_pct |-> Lit(88030, 0, 0, FALSE),
                           high_pct |-> Lit(93750, 0, 0, TRUE)],
       [name |-> "Zone 5", low_pct |-> Lit(93760, 0, 0, FALSE),
                           high_pct |-> Lit(100000, 0, 0, TRUE)] >>

\* hrmax * pct for an integer hrmax, exactly, in units of 10^-15:
\* top * 10^10 + mid * 10^5 + low.
Group == 100000
Product(h, pct) ==
    LET p0 == h * pct.d0
        p1 == h * pct.d1 + (p0 \div Group)
    IN  [top |-> h * pct.d2 + (p1 \div Group), mid |-> p1 % Group, low |-> p0 % Group]

\* The product in tenths, cut off: not what round does.
RoundDown(h, pct, up) == Product(h, pct).top \div 10000

\* round(hrmax * pct, 1) in tenths.  The nearest tenth of the double product;
\* a product halfway between two tenths goes to the even one when the double
\* holds it exactly, and otherwise where the error of the double puts it (up).
Halfway(h, pct) ==
    LET p == Product(h, pct) IN p.top % 10000 = 5000 /\ p.mid = 0 /\ p.low = 0
Round(h, pct, up) ==
    LET p == Product(h, pct)
        below == p.top \div 10000
    IN  IF Halfway(h, pct)
        THEN IF pct.binary THEN (IF below % 2 = 0 THEN below ELSE below + 1)
             ELSE (IF up THEN below + 1 ELSE below)
        ELSE IF p.top % 10000 >= 5000 THEN below + 1 ELSE below

\* The products whose rounding the error of the double decides.
Undecided(h) ==
    {b \in (DOMAIN zone_percents) \X {"min", "max"} :
        LET pct == IF b[2] = "min" THEN zone_percents[b[1]].low_pct
                   ELSE zone_percents[b[1]].high_pct
        IN  ~pct.binary /\ Halfway(h, pct)}

\* compute_zones(hrmax).
ComputeZones ==
    /\ fn = "compute_zones" /\ fpc = "start"
    /\ \E ups \in SUBSET Undecided(hrmax) :
         zones' = [name \in {zone_percents[k].name : k \in DOMAIN zone_percents} |->
                     LET k == CHOOSE k \in DOMAIN zone_percents : zone_percents[k].name = name
                     IN  [min |-> Round(hrmax, zone_percents[k].low_pct, <<k, "min">> \in ups),
                          max |-> Round(hrmax, zone_percents[k].high_pct, <<k, "max">> \in ups)]]
    /\ fpc' = "returned"
    /\ UNCHANGED <<fn, hrzVars, hrmax, hrmaxVars, typeVars>>
    /\ UNCHANGED <<oauthVars, wrapperVars, streamVars, cliVars>>

ZonesIdle ==
    /\ hrmax = 0
    /\ zones = <<>>

\* A JSON value of a reading: a number, NaN, null, or a text that float()
\* rejects.
NoneValue == [kind |-> "none", n |-> 0]
NaN == [kind |-> "nan", n |-> 0]
Number(n) == [kind |-> "num", n |-> n]
Text == [kind |-> "text", n |-> 0]

\* A reading is the bare value or an object, with the key "value" or not.
Bare(v) == [shape |-> "bare", has_value |-> FALSE, value |-> v]
WithValue(v) == [shape |-> "dict", has_value |-> TRUE, value |-> v]
WithoutValue == [shape |-> "dict", has_value |-> FALSE, value |-> NoneValue]

\* hr_val > max_hr for two floats: false as soon as one of them is NaN.
Gt(a, b) == a.kind = "num" /\ b.kind = "num" /\ a.n > b.n

\* The body of the inner loop for one reading.
Reading(reading, m) ==
    LET hr_val == IF reading.shape = "dict"
                  THEN (IF reading.has_value THEN reading.value ELSE NoneValue)
                  ELSE reading.value
    IN  IF hr_val.kind = "none" THEN m
        ELSE IF hr_val.kind = "text" THEN m
        ELSE IF m.kind = "none" \/ Gt(hr_val, m) THEN hr_val
        ELSE m

\* The inner loop over the readings of one activity.
RECURSIVE Readings(_, _)
Readings(readings, m) ==
    IF readings = <<>> THEN m ELSE Readings(Tail(readings), Reading(Head(readings), m))

\* The outer loop over data.items(); an activity without "heartrate" has no
\* readings.
RECURSIVE Activities(_, _)
Activities(items, m) ==
    IF items = <<>> THEN m
    ELSE Activities(Tail(items),
                    Readings(IF Head(items).has_heartrate THEN Head(items).readings ELSE <<>>, m))

\* find_hrmax(data).
FindHrmax ==
    /\ fn = "find_hrmax" /\ fpc = "start"
    /\ max_hr' = Activities(hr_data, NoneValue)
    /\ fpc' = IF max_hr'.kind = "none" THEN "ValueError" ELSE "returned"
    /\ UNCHANGED <<fn, hrzVars, zonesVars, hr_data, typeVars>>
    /\ UNCHANGED <<oauthVars, wrapperVars, streamVars, cliVars>>

HrmaxIdle ==
    /\ hr_data = <<>>
    /\ max_hr = NoneValue

TypeIdle ==
    /\ dat_stream = [has_velocity |-> FALSE, data |-> <<>>]
    /\ dat_meta = NoMeta
    /\ dat_result = "none"

\* None of the heart-rate functions is applied.
CalcIdle ==
    /\ fn = "none"
    /\ fpc = "none"
    /\ HrzIdle
    /\ ZonesIdle
    /\ HrmaxIdle
    /\ TypeIdle

\* ------------------------------------------------------- specifications
LoopStep(t) ==
    \/ ServeEnter(t)
    \/ ServeTest(t)
    \/ ServeSelect(t)
    \/ ServeAccept(t)
    \/ DoGet(t)
    \/ DoGetSend200(t)
    \/ DoGetSpawnShutdown(t)
    \/ ServeFinally(t)

ShutdownStep(i) == ShutdownRequest(i) \/ ShutdownWait(i)

MainStep ==
    \/ StartHttpServer
    \/ OpenAuthorizationUrl
    \/ MainCheckCode
    \/ MainPrintCode
    \/ ExchangeCodeForToken

Next ==
    \/ MainStep
    \/ Connect
    \/ \E t \in Loops : LoopStep(t)
    \/ \E i \in Shutdowns : ShutdownStep(i)

Init ==
    /\ wpc = "none"
    /\ GlueIdle
    /\ pc = [t \in Loops |-> IF t = "main" THEN "start_server" ELSE "unstarted"]
    /\ token_file \in {NoFile, OldFile}
    /\ OAuthInit
    /\ StreamIdle
    /\ CliIdle
    /\ CalcIdle

WrapperStep ==
    \/ GetValidTokenCheck
    \/ GetValidTokenReread
    \/ FetchActivities
    \/ WriteActivities
    \/ CallCompile

WrapperNext == WrapperStep \/ Next

WrapperInit ==
    /\ wpc = "gvt"
    /\ wrapper \in Wrappers
    /\ write_result = "none"
    /\ csd_called = FALSE
    /\ pc = [t \in Loops |-> IF t = "main" THEN "idle" ELSE "unstarted"]
    /\ token_file \in WrapperFiles
    /\ OAuthInit
    /\ StreamIdle
    /\ CliIdle
    /\ CalcIdle

StreamStep ==
    \/ CollectorLoad
    \/ CollectorIteration
    \/ CollectorDone
    \/ FetcherLoad
    \/ FetcherIteration
    \/ FetcherSave

\* The files a run of stream_data_compiler.py may find and the IDs it may be given.
CompileFiles ==
    {MissingFile, CorruptJson, JsonFile(<<>>), JsonFile(<<Entry(7)>>),
     JsonFile(<<EntryWithoutId>>)}
IdLists == SeqsUpTo(Spellings, MaxIds)

\* The files a run of compile_stream_data.py may find.
IdsFiles ==
    {MissingFile, CorruptJson} \cup {JsonFile(d) : d \in SeqsUpTo(Items, MaxIds)}
CompiledFiles ==
    {MissingFile, CorruptJson, JsonFile(<<>>),
     JsonFile(Put(<<>>, Key("ride", 7), CHOOSE st \in Streams : ~st.has_velocity)),
     JsonFile(Put(<<>>, <<"athlete">>, CHOOSE st \in Streams : ~st.has_velocity))}

\* activities_2025.json: absent, unparseable, or a list with the record of
\* activity 7.
MetadataFiles ==
    {MissingFile, CorruptJson}
    \cup {JsonFile(Put(<<>>, 7, m)) :
            m \in {[has |-> TRUE, type |-> "-", sport_type |-> "-"],
                   [has |-> TRUE, type |-> "Ride", sport_type |-> "-"],
                   [has |-> TRUE, type |-> "Hike", sport_type |-> "Run"]}}

StreamInit ==
    /\ wpc = "none"
    /\ GlueIdle
    /\ pc = [t \in Loops |-> IF t = "main" THEN "idle" ELSE "unstarted"]
    /\ token_file = NoFile
    /\ OAuthInit
    /\ CliIdle
    /\ CalcIdle
    /\ variant \in {"list", "dict"}
    /\ spc = "start"
    /\ runs = 0
    /\ new_ids = <<>>
    /\ missing_ids = <<>>
    /\ compiled = <<>>
    /\ found = [r \in 1..MaxRuns |-> 0]
    /\ requests = [r \in 1..MaxRuns |-> 0]
    /\ first_run_ok = TRUE
    /\ file_after_first = MissingFile
    /\ batch = <<>>
    /\ attempted = <<>>
    /\ succeeded = {}
    /\ IF variant = "list"
       THEN /\ activity_ids \in IdLists
            /\ compile_file \in CompileFiles
            /\ ids_file = MissingFile
            /\ compiled_file = MissingFile
            /\ metadata_file = MissingFile
       ELSE /\ activity_ids = <<>>
            /\ compile_file = MissingFile
            /\ ids_file \in IdsFiles
            /\ compiled_file \in CompiledFiles
            /\ metadata_file \in MetadataFiles

\* MaxRuns consecutive runs of stream_data_compiler.py or compile_stream_data.py.
SpecStream == StreamInit /\ [][StreamStep]_vars

\* One run of wrapper3.py / Oauth_2_ActList.py, up to the activity request.
SpecWrapper == WrapperInit /\ [][WrapperNext]_vars

\* One run of API_oauth_activityread.py.
Spec == Init /\ [][Next]_vars

\* The threads are scheduled fairly: a thread that can take a step takes
\* one.  Nothing obliges the browser to connect.
Fairness ==
    /\ WF_vars(MainStep)
    /\ \A t \in Loops : WF_vars(LoopStep(t))
    /\ \A i \in Shutdowns : WF_vars(ShutdownStep(i))

FairSpec == Spec /\ Fairness

CliStep ==
    \/ ActivitiesArgs
    \/ ActivitiesFetch
    \/ ActivitiesWrite
    \/ RecentStart
    \/ RecentLocalStream
    \/ RecentApiStream
    \/ CompileEntry
    \/ ZonesMain

\* The command lines and environments the scripts are started with.
ActivitiesArgvs == {<<>>, <<"--token">>, <<"--token", "">>, <<"--token", "T">>, <<"T">>}
EnvTokens == {None, "", "E"}
RecentArgvs == {<<>>, <<"2025">>, <<"this">>, <<"2025", "2024">>}
CompileArgvs == SeqsUpTo(Words, 2)
ZonesArgvs == {<<>>, <<"in.json">>, <<"in.json", "out.json">>}

CliInit ==
    /\ wpc = "none"
    /\ GlueIdle
    /\ pc = [t \in Loops |-> IF t = "main" THEN "idle" ELSE "unstarted"]
    /\ token_file = NoFile
    /\ OAuthInit
    /\ StreamIdle
    /\ CalcIdle
    /\ script \in {"activities", "recent", "compile", "zones"}
    /\ cpc = "start"
    /\ cli_input = None
    /\ cli_exit = "running"
    /\ cli_diag = "none"
    /\ cli_requests = 0
    /\ cli_status = 0
    /\ cli_token = None
    /\ cli_written = {}
    /\ fatal_met = FALSE
    /\ CASE script = "activities" ->
              argv \in ActivitiesArgvs /\ env_token \in EnvTokens /\ cli_env = <<>>
         [] script = "recent" ->
              argv \in RecentArgvs /\ env_token = None /\ cli_env \in RecentEnvs
         [] script = "compile" ->
              argv \in CompileArgvs /\ env_token = None /\ cli_env = <<>>
         [] script = "zones" ->
              argv \in ZonesArgvs /\ env_token = None /\ cli_env \in ZonesEnvs

\* One run of a script started from the shell.
SpecCli == CliInit /\ [][CliStep]_vars

\* The series HRZdev.py is run on: timestamps in seconds that do not
\* decrease, heart rates in beats per minute.
MaxSamples == 4
Stamps == {0, 10, 20, 30}
Bpms == {100, 120, 150, 170, 190}
NonDecreasing(s) == \A k \in 1..(Len(s) - 1) : s[k] <= s[k + 1]
TimeSeries(n) == {s \in [1..n -> Stamps] : NonDecreasing(s)}

OthersIdle ==
    /\ wpc = "none"
    /\ GlueIdle
    /\ pc = [t \in Loops |-> IF t = "main" THEN "idle" ELSE "unstarted"]
    /\ token_file = NoFile
    /\ OAuthInit
    /\ StreamIdle
    /\ CliIdle

HrzInit ==
    /\ OthersIdle
    /\ fn = "zone_time"
    /\ fpc = "start"
    /\ hrz_i = 0
    /\ zone_time = <<>>
    /\ total_time = 0
    /\ ZonesIdle
    /\ HrmaxIdle
    /\ TypeIdle
    /\ data_file \in {"missing", "json"}
    /\ IF data_file = "missing"
       THEN time_series = <<>> /\ heartrate_series = <<>>
       ELSE \E n \in 0..MaxSamples :
              /\ time_series \in TimeSeries(n)
              /\ \E m \in {n, n - 1} \cap Nat :
                   heartrate_series \in [1..m -> IF m = n THEN Bpms ELSE {100}]

\* compute_zones applied to a heart rate in beats per minute.
MaxHrmax == 200

ZonesInit ==
    /\ OthersIdle
    /\ HrzIdle
    /\ fn = "compute_zones"
    /\ fpc = "start"
    /\ hrmax \in 0..MaxHrmax
    /\ zones = <<>>
    /\ HrmaxIdle
    /\ TypeIdle

SpecZones == ZonesInit /\ [][ComputeZones]_vars

\* The mappings find_hrmax is applied to: up to MaxReadings readings in
\* one or two activities, and an activity without heart rates.
MaxReadings == 3
ReadingValues ==
    {Bare(Number(150)), Bare(Number(160)), Bare(NaN), Bare(NoneValue), Bare(Text),
     WithValue(Number(170)), WithoutValue}
Activity(readings) == [has_heartrate |-> TRUE, readings |-> readings]
NoHeartrate == [has_heartrate |-> FALSE, readings |-> <<>>]
Mappings(readings) ==
    {<<>>, <<NoHeartrate>>, <<Activity(readings)>>, <<NoHeartrate, Activity(readings)>>}
        \cup {<<Activity(SubSeq(readings, 1, k)), Activity(SubSeq(readings, k + 1, Len(readings)))>> :
                 k \in 1..(Len(readings) - 1)}

HrmaxInit ==
    /\ OthersIdle
    /\ HrzIdle
    /\ ZonesIdle
    /\ TypeIdle
    /\ fn = "find_hrmax"
    /\ fpc = "start"
    /\ max_hr = NoneValue
    /\ \E n \in 0..MaxReadings : \E readings \in [1..n -> ReadingValues] :
         hr_data \in Mappings(readings)

SpecHrmax == HrmaxInit /\ [][FindHrmax]_vars

\* ------------------------------ compile_stream_data.determine_activity_type
\* One call of determine_activity_type: it returns 'run' or 'ride', or max()
\* raises ValueError on an empty velocity stream.
DetermineType ==
    /\ fn = "determine_activity_type" /\ fpc = "start"
    /\ LET act_type == DetermineActivityType(dat_stream, dat_meta)
       IN  IF act_type = "raise"
           THEN fpc' = "ValueError" /\ UNCHANGED dat_result
           ELSE fpc' = "returned" /\ dat_result' = act_type
    /\ UNCHANGED <<fn, hrzVars, zonesVars, hrmaxVars, dat_stream, dat_meta>>
    /\ UNCHANGED <<oauthVars, wrapperVars, streamVars, cliVars>>

TypeInit ==
    /\ OthersIdle
    /\ HrzIdle
    /\ ZonesIdle
    /\ HrmaxIdle
    /\ fn = "determine_activity_type"
    /\ fpc = "start"
    /\ dat_stream \in Streams
    /\ dat_meta \in Metas
    /\ dat_result = "none"

SpecType == TypeInit /\ [][DetermineType]_vars

HrzStep ==
    \/ HrzLoad
    \/ HrzIteration
    \/ HrzOutput

\* One run of HRZdev.py.
SpecZoneTime == HrzInit /\ [][HrzStep]_vars

\* ================================================================ claims
ServingPcs == {"enter", "test", "select", "accept", "do_GET", "send200", "spawn", "finally"}
\* The step in which thread t runs do_GET's parse-and-branch.
DoGetStepOf(t) == pc[t] = "do_GET" /\ pc'[t] \in {"send200", "test", "finally"}
\* The pairs of a query string named code, blank values included.
CodePairs(q) == SelectSeq(q, LAMBDA p : p[1] = "code")
NonBlankCodePairs(q) == SelectSeq(q, LAMBDA p : p[1] = "code" /\ p[2] # "")

\* C1: a shutdown() started by do_GET eventually returns (or the process has
\* ended), in every fair interleaving of the serving threads, main and the
\* shutdown threads: no thread waits forever on the is-shut-down event.
C1_ShutdownReturns ==
    \A i \in Shutdowns : (shut[i] = "start") ~> (shut[i] = "done" \/ ~Running)

\* C2: once a request carrying a code has been handled, the main thread's
\* serve_forever() eventually ends under fair scheduling and main goes on to
\* the token exchange.
C2_MainReachesExchange == (captures > 0) ~> (posts > 0)

\* C3: the listener is single-use: once the shutdown requested by the first
\* request carrying a code has completed no serving loop is running, and the
\* auth_code slot is assigned at most once in a run.
C3_SingleUse ==
    /\ (shut[1] = "done") => (\A t \in Loops : pc[t] \notin ServingPcs)
    /\ captures <= 1

\* C4 (as claimed): every request whose query string contains a code parameter
\* sets auth_code to the first value of that parameter and is answered 200.
C4_AnyCodeParameterCaptured ==
    [][\A t \in Loops :
        (DoGetStepOf(t) /\ CodePairs(cur[t]) # <<>>) =>
            (auth_code' = CodePairs(cur[t])[1][2] /\ pc'[t] = "send200")]_vars

\* C4 (amended): every request whose query string contains a code parameter
\* with a non-empty value sets auth_code to the first non-empty value of that
\* parameter and goes on to answer 200; the shutdown thread is started only by
\* a handler that has written its 200 response.
C4_NonBlankCodeCaptured ==
    [][/\ \A t \in Loops :
            (DoGetStepOf(t) /\ NonBlankCodePairs(cur[t]) # <<>>) =>
                (auth_code' = NonBlankCodePairs(cur[t])[1][2] /\ pc'[t] = "send200")
       /\ \A i \in Shutdowns :
            (shut[i] = "none" /\ shut'[i] = "start") =>
                (\E t \in Loops : pc[t] = "spawn" /\ capno[t] = i /\ status[t] = 200
                                  /\ pc'[t] = "test")]_vars
C4_Witness ==
    \E t \in Loops, i \in Shutdowns : shut[i] = "start" /\ auth_code = "b" /\ captures = 1

\* C5: a request whose query string has no code parameter is answered 400,
\* leaves auth_code alone, requests no shutdown, and the thread goes back to
\* the head of the serving loop; as long as no code was captured and the
\* process runs, no shutdown is requested and no serving loop has ended.
C5_NoCodeKeepsServing ==
    /\ [][\A t \in Loops :
            (DoGetStepOf(t) /\ CodePairs(cur[t]) = <<>>) =>
                /\ answered400'
                /\ pc'[t] = "test"
                /\ UNCHANGED <<auth_code, captures, shut, shutdown_request, is_shut_down>>]_vars
    /\ []((captures = 0 /\ Running) =>
            /\ ~shutdown_request
            /\ \A i \in Shutdowns : shut[i] = "none"
            /\ \A t \in Loops : pc[t] \notin {"finally", "exited", "check_code"})
C5_Witness == answered400 /\ late_capture /\ sent = MaxRequests

\* C6: the token-exchange POST is issued at most once, with a captured code,
\* and the code tested against None, the code printed and the code sent are
\* all the code of the first request that carried one.
C6_FirstCodeExchanged ==
    /\ posts <= 1
    /\ posts = 1 =>
        /\ exchanged # None
        /\ exchanged = first_code
        /\ checked = exchanged
        /\ printed = exchanged

\* C7: after a 2xx answer whose JSON body holds access_token, refresh_token
\* and expires_at, the exchange returns and the token file holds exactly these
\* three keys with the response's values, expires_at as the raw integer; the
\* UTC text is on the console only.
Is2xx(s) == s >= 200 /\ s < 300
C7_TokenFileIsMinimal ==
    (posts = 1 /\ Is2xx(response.status) /\ response.body.json
        /\ TokenKeys \subseteq DOMAIN response.body.data) =>
        /\ pc["main"] = "returned"
        /\ token_file.state = "json"
        /\ DOMAIN token_file.data = {"access_token", "refresh_token", "expires_at"}
        /\ \A k \in DOMAIN token_file.data : token_file.data[k] = response.body.data[k]
        /\ token_file.data["expires_at"] \in Int
        /\ console["expires_at"] = RenderUtc(response.body.data["expires_at"])
C7_Witness ==
    /\ pc["main"] = "returned"
    /\ response.status = 200
    /\ "token_type" \in DOMAIN response.body.data
    /\ token_file0 = OldFile
    /\ token_file.data["access_token"] = "N"

\* C8: after any answer that is not 2xx the process has ended
\* with status 1 and a diagnostic, the token file is as it was, and neither
\* the token is read again nor the activity API called.
Fatal ==
    /\ exit_status = "exit1"
    /\ diagnostic # "none"
    /\ token_file = token_file0
    /\ wpc = "oauth"
    /\ stored_token = None
    /\ api_calls = 0
C8_Non2xxIsFatal == (posts = 1 /\ ~Is2xx(response.status)) => Fatal

\* What raise_for_status does guarantee: after a 4xx or 5xx answer the process
\* has ended with status 1 and the HTTP error diagnostic, the token file is as
\* it was, and neither the token is read again nor the activity API called.
ErrorStatusIsFatal ==
    (posts = 1 /\ response.status >= 400 /\ response.status < 600) =>
        (Fatal /\ diagnostic = "http_error")

\* C9: get_valid_token returns the stored token without an authorization
\* cycle exactly when the stored record was valid at the test (readable,
\* access_token non-empty, expires_at > now); otherwise the activity API is
\* called only after an OAuth cycle has completed, with the token it wrote.
C9_StoredTokenValidOrFresh ==
    /\ wpc # "gvt" => (pc["main"] = "idle" <=> valid_at_check)
    /\ api_calls > 0 =>
        IF valid_at_check
        THEN posts = 0 /\ api_token = token_file0.data["access_token"]
        ELSE /\ posts = 1
             /\ pc["main"] = "returned"
             /\ api_token = response.body.data["access_token"]
C9_Witness ==
    /\ api_calls = 1
    /\ ~valid_at_check
    /\ token_file0 = [state |-> "json", data |-> StoredRecord("A", MaxTime)]
    /\ api_token = "N"

\* C10: after a first run that ended normally and whose stream requests all
\* succeeded, on distinct IDs, a second run with the same IDs finds no new or missing ID, issues no
\* stream request, and leaves the compilation file as the first run left it.
DistinctIds ==
    IF variant = "list" THEN NoRepeats(activity_ids)
    ELSE ids_file.kind = "json" => NoRepeats(CleanedIds(ids_file.data))
CompilationFile == IF variant = "list" THEN compile_file ELSE compiled_file
C10_RerunIsIdempotent ==
    (runs >= 1 /\ first_run_ok /\ DistinctIds) =>
        /\ found[2] = 0
        /\ requests[2] = 0
        /\ runs >= 2 => CompilationFile = file_after_first

\* C11: when a run of a stream compiler has ended, it has requested the
\* streams of every new or missing ID it found, in input order, whatever
\* requests failed, and every ID whose request was answered with the streams
\* is in the compilation file.
RunEnded == runs >= 1 /\ spc \in {"start", "done"}
Stored(aid) ==
    IF variant = "list"
    THEN compile_file.kind = "json"
         /\ \E k \in 1..Len(compile_file.data) :
               compile_file.data[k].has_id /\ compile_file.data[k].id = PyInt(aid)
    ELSE compiled_file.kind = "json"
         /\ \E key \in DOMAIN compiled_file.data : Len(key) > 1 /\ PyInt(key[2]) = aid
C11_FailureSkipsOneId ==
    RunEnded => (attempted = batch /\ \A aid \in succeeded : Stored(aid))

\* C12: a script that has ended after meeting a fatal condition (a missing
\* token, an HTTP answer that is not 2xx, malformed JSON input, a missing
\* input file) has ended with status 1, and one that has ended with status 0
\* has met none.
C12_FatalExitsOne ==
    cpc = "ended" => ((fatal_met => cli_exit = "exit1") /\ (cli_exit = "exit0" => ~fatal_met))

\* C13 as stated: when Activity_data_retrieve gets a non-empty token neither
\* from --token nor from STRAVA_TOKEN, or compile_stream_data gets no
\* positional token or an empty one, the script ends with status 1 and a
\* report, without a request and without a file; and when --token and
\* STRAVA_TOKEN are both set, the script uses the value of --token.
TokenOption == argv # <<>> /\ argv[1] = "--token"
OptionValue == IF TokenOption /\ Len(argv) = 2 THEN argv[2] ELSE None
NoTokenSupplied ==
    \/ /\ script = "activities" /\ (argv = <<>> \/ TokenOption)
       /\ OptionValue \in {None, ""} /\ env_token \in {None, ""}
    \/ script = "compile" /\ (argv = <<>> \/ (Len(argv) = 1 /\ Strip(argv[1]) = <<>>))
BothSet == script = "activities" /\ TokenOption /\ Len(argv) = 2 /\ env_token # None
EndedWithoutEffect == cli_diag # "none" /\ cli_requests = 0 /\ cli_written = {}
ZonesOf(hr) == {k \in DOMAIN ZONE_DEFINITIONS : Predicate(ZONE_DEFINITIONS[k], hr)}
RECURSIVE Attributed(_, _)
Attributed(k, last) ==
    IF last < 1 THEN 0
    ELSE Attributed(k, last - 1)
         + (IF k \in ZonesOf(heartrate_series[last + 1])
            THEN time_series[last + 1] - time_series[last] ELSE 0)
Accumulating == fn = "zone_time" /\ fpc \in {"loop", "done"}
Nearest(tenths, h, pct) ==
    LET p == Product(h, pct)
        d == p.top - tenths * 10000
    IN  d >= -5000 /\ (d < 5000 \/ (d = 5000 /\ p.mid = 0 /\ p.low = 0))
Returned == fn = "compute_zones" /\ fpc = "returned"
Documented ==
    << [low_pct |-> Lit(68000, 0, 0, FALSE), high_pct |-> Lit(73960, 0, 0, FALSE)],
       [low_pct |-> Lit(73970, 0, 0, FALSE), high_pct |-> Lit(81250, 0, 0, TRUE)],
       [low_pct |-> Lit(81260, 0, 0, FALSE), high_pct |-> Lit(88000, 0, 0, FALSE)],
       [low_pct |-> Lit(88100, 0, 0, FALSE), high_pct |-> Lit(93750, 0, 0, TRUE)],
       [low_pct |-> Lit(93760, 0, 0, FALSE), high_pct |-> Lit(100000, 0, 0, TRUE)] >>
C16_DocumentedPercentages ==
    Returned =>
        \A k \in DOMAIN Documented :
            LET zone == zones[zone_percents[k].name]
            IN  /\ Nearest(zone.min, hrmax, Documented[k].low_pct)
                /\ Nearest(zone.max, hrmax, Documented[k].high_pct)

\* C17: find_hrmax returns the greatest number among the values of all
\* readings of all activities, whatever their order, and raises ValueError
\* exactly when no reading holds a float.
AllReadings ==
    UNION {{hr_data[a].readings[k] : k \in DOMAIN hr_data[a].readings} : a \in DOMAIN hr_data}
Numbers ==
    {r.value.n : r \in {r \in AllReadings : (r.shape = "bare" \/ r.has_value)
                                              /\ r.value.kind = "num"}}
C17_HrmaxIsGreatest ==
    (fn = "find_hrmax" /\ fpc # "start") =>
        IF Numbers = {} THEN fpc = "ValueError"
        ELSE /\ fpc = "returned"
             /\ max_hr.kind = "num"
             /\ max_hr.n \in Numbers
             /\ \A n \in Numbers : n <= max_hr.n

\* C18: run with an input file that holds activities with heart rates, and
\* with or without an output file name, the zone script has, when it ends,
\* read the activities from the input file and written the zones to the
\* output file, hr_zones.json when none was named; and it never reads its
\* input from its own path nor writes to the input file of the user.
C18_ReadsInputWritesOutput ==
    (script = "zones" /\ cpc = "ended") =>
        /\ cli_input # ScriptPath
        /\ \A k \in DOMAIN argv : k = 1 => argv[k] \notin cli_written
        /\ (argv # <<>> /\ Content(argv[1]) = "activities") =>
              /\ cli_input = argv[1]
              /\ cli_exit = "exit0"
              /\ cli_written = {IF Len(argv) > 1 THEN argv[2] ELSE "hr_zones.json"}

\* C19: when localhost:8000 cannot be bound, the step that starts the server
\* ends the process with status 1 and a traceback, and in that run the
\* serving thread is never started, the browser never opened, no connection
\* accepted and no token exchange attempted; and whenever the browser has
\* been opened or a connection has arrived, the port was bound and the serving
\* thread had been started.
C19_BindFailureIsFatal ==
    wpc = "none" =>
        /\ ~port_free =>
              /\ pc["main"] \in {"start_server", "crashed"}
              /\ pc["main"] = "crashed" => (exit_status = "exit1" /\ diagnostic = "traceback")
              /\ pc["bg"] \in {"unstarted", "dead"}
              /\ ~browser_opened /\ sent = 0 /\ posts = 0 /\ exchanged = None
        /\ (browser_opened \/ sent > 0) => (port_free /\ pc["bg"] # "unstarted")
C19_Witness ==
    /\ ~port_free /\ pc["main"] = "crashed" /\ exit_status = "exit1"
    /\ ~browser_opened /\ posts = 0

\* C20: run with exactly one argument that is not empty after stripping,
\* compile_stream_data.py does not end in its entry point: the call of main
\* supplies every required argument and main is entered.
C20_EntryEntersMain ==
    (script = "compile" /\ Len(argv) = 1 /\ cpc # "start") =>
        (Strip(argv[1]) # <<>> => (cpc = "main" /\ cli_diag # "type_error"))

\* C21: when writing the activities file has failed in a wrapper script, the
\* run has ended there: the process no longer runs and wrapper3 has not
\* called compile_stream_data.main, nor ever will.
C21_WriteFailureEndsRun ==
    write_result = "failed" => (~Running /\ wpc = "exited" /\ ~csd_called)

\* C22: whatever runs of stream_data_compiler.main have taken place, no two
\* entries of the compilation file have the same id.
C22_NoTwoEntriesWithOneId ==
    (variant = "list" /\ compile_file.kind = "json") =>
        \A j, k \in DOMAIN compile_file.data :
            (j # k /\ compile_file.data[j].has_id /\ compile_file.data[k].has_id)
                => compile_file.data[j].id # compile_file.data[k].id


\* C23: in compile_stream_data an activity whose fetch or type determination
\* fails gets no key and is reported missing again, a stored activity is never
\* reported missing again, and the saved compilation never holds two keys
\* with the same numeric id.
C23_OneKeyPerId ==
    (variant = "dict" /\ compiled_file.kind = "json") =>
        \A j, k \in DOMAIN compiled_file.data :
            (j # k /\ Len(j) > 1 /\ Len(k) > 1) => PyInt(j[2]) # PyInt(k[2])

\* C24: determine_activity_type returns only 'run' or 'ride'; when the
\* metadata has `type`, `sport_type` is not consulted (the result is the one
\* the same call gives without `sport_type`); and the velocity stream plays no
\* part when `type` or `sport_type` names a run, a walk or a ride.
Explicit(t) == t # "-" /\ Lower(t) \in {"run", "walk", "ride"}
C24_StrictPrecedence ==
    (fn = "determine_activity_type" /\ fpc = "returned") =>
        /\ dat_result \in {"run", "ride"}
        /\ (dat_meta.has /\ dat_meta.type # "-") =>
               dat_result = DetermineActivityType(dat_stream, [dat_meta EXCEPT !.sport_type = "-"])
        /\ (dat_meta.has /\ (Explicit(dat_meta.type) \/ Explicit(dat_meta.sport_type))) =>
               \A st \in Streams : DetermineActivityType(st, dat_meta) = dat_result
====
